---- MODULE Spec2Model ----
(***************************************************************************)
(* A model of three parts of the node:                                     *)
(*   - p2p/src/beacon_committee_subscriptions.rs, the subscription tracker *)
(*     (specification SpecSubs);                                           *)
(*   - http_api_utils/src/error.rs, the API error type (SpecErr,           *)
(*     SpecErrFair);                                                       *)
(*   - http_api/src/context.rs, Context::try_run_case: construction and    *)
(*     controller feeding (SpecCase, SpecConstruct), the supervisor's race *)
(*     (SpecRace, SpecRaceFair), the two together (SpecRun), the channels  *)
(*     (SpecSend, SpecChan) and the locks (SpecLocks).                     *)
(***************************************************************************)
EXTENDS Integers, Sequences, FiniteSets, TLC

VARIABLES
    \* ---- subscription tracker ----
    subscriptions,   \* BeaconCommitteeSubscriptions.subscriptions (nested ordered map)
    returned,        \* the values collected from the last all() call
    ops,             \* history: the names of the operations performed, in order
    arg,             \* history: the epoch passed to the last discard_old_subscriptions
    batchArg,        \* history: the batch passed to the last update
    submitted,       \* history: key -> the subscription most recently submitted for it
    prior,           \* history: key -> the subscription that the latest one superseded
    evicted,         \* history: keys evicted since their last submission
    nsubs,           \* history: number of subscriptions submitted so far
    \* ---- API error ----
    err,             \* the Error value: InvalidBody { direction, uri, source }
    error,           \* the cursor captured by the closure of sources(): Option<&dyn StdError>
    yielded,         \* the messages of the errors yielded by sources() so far
    rendered,        \* the text written so far by the Display of format_sources()
    response,        \* the Response produced by into_response, or None
    pcErr,           \* "ready", "formatting", "formatted" or "responded"
    \* ---- Context::try_run_case ----
    payload_statuses,  \* Context.payload_statuses: (execution block hash, PayloadStatus)
    extra_blocks,      \* Context.extra_blocks: each block by its execution block hash
    pc,                \* the position of try_run_case in Program
    next_status,       \* the number of payload statuses the first loop has consumed
    next_block,        \* the number of extra blocks the second loop has consumed
    calls,             \* history: the calls made on the controller, in order
    result,            \* what try_run_case returned, if it has: None or Some(Result)
    wired,             \* the number of steps of try_run_case whose endpoints are passed on
    tick,              \* the tick Controller::new was given, once it has been called
    attempts,          \* history: the steps of try_run_case carried out, in order
    failures,          \* history: the steps and run loops that have failed
    \* ---- the channels ----
    queue,             \* channel -> the messages sent and not yet received, in order
    sent,              \* history: channel -> every message sent on it, in order
    received,          \* history: channel -> the messages its consumer took, in order
    request,           \* the first scripted request: "none", "issued" or "served"
    servedAfter,       \* history: what the API had handled when it served that request
    \* ---- the locks around the shared stores ----
    holders,           \* lock -> the guards alive: (task, mode)
    waiting,           \* lock -> the acquisitions pending: (task, mode)
    \* ---- the controller behind the calls ----
    block_tasks,       \* blocks submitted for validation whose validation has not ended
    mutator_queue,     \* messages on their way to the mutator, in order
    verdicts,          \* execution block hash -> the latest verdict the store was told
    ingested,          \* blocks the store has ingested
    archivable,        \* blocks found eligible for archival when they were ingested
    finalized,         \* ingested blocks that have become finalized
    persisted,         \* blocks written to the database
    \* ---- the race of select_biased! ----
    fate,              \* per racer: "never" resolves, or resolves with "ok" or "err"
    status,            \* per racer: "pending", "ready" (its next poll completes) or "resolved"
    pollPos,           \* the racer the select polls next; 0 when the select is not being polled
    woken,             \* whether the task running the select has been woken
    resolved,          \* history: the racers whose poll returned Ready, in order
    polled,            \* history: the racers polled at least once
    observed           \* history: (racer, status found) for the polls of the current pass

subsVars ==
    <<subscriptions, returned, ops, arg, batchArg, submitted, prior, evicted, nsubs>>

errVars == <<err, error, yielded, rendered, response, pcErr>>

caseVars == <<payload_statuses, extra_blocks, pc, next_status, next_block, calls, result>>

wireVars == <<wired, tick, attempts, failures>>

chanVars == <<queue, sent, received, request, servedAfter>>

lockVars == <<holders, waiting>>

controllerVars ==
    <<block_tasks, mutator_queue, verdicts, ingested, archivable, finalized, persisted>>

raceVars == <<fate, status, pollPos, woken, resolved, polled, observed>>

vars ==
    <<subsVars, errVars, caseVars, controllerVars, raceVars, wireVars, chanVars, lockVars>>

\* Option<T>: None is the empty sequence, Some(x) the sequence holding x.
None == << >>
Some(x) == <<x>>
Unwrap(o) == o[1]

\* What the actions of one part leave alone.
notSubsVars ==
    <<errVars, caseVars, controllerVars, raceVars, wireVars, chanVars, lockVars>>
notErrVars ==
    <<subsVars, caseVars, controllerVars, raceVars, wireVars, chanVars, lockVars>>
notRunVars == <<subsVars, errVars, lockVars>>

(***************************************************************************)
(* Bounds of the model.                                                    *)
(***************************************************************************)
MaxSlot == 2
SlotsPerEpoch == 2
MaxValidator == 1
MaxCommittee == 1
MaxBatch == 2
MaxOps == 3
MaxSubs == 2
MaxChain == 2
MaxStatuses == 2
MaxBlocks == 1
MaxHash == 2
MaxResolving == 2
MaxExtra == 2
MaxSent == 2
MaxHandlers == 2

(***************************************************************************)
(* Generic helpers for ordered maps (BTreeMap): a map is a function whose  *)
(* domain is its key set; iteration visits keys in ascending order.        *)
(***************************************************************************)
EmptyMap == << >>

MinOf(S) == CHOOSE x \in S : \A y \in S : x <= y

RECURSIVE SortedKeys(_)
SortedKeys(S) ==
    IF S = {} THEN << >>
    ELSE LET m == MinOf(S) IN <<m>> \o SortedKeys(S \ {m})

\* BTreeMap::values: the values in ascending key order.
Values(m) ==
    LET ks == SortedKeys(DOMAIN m) IN [i \in 1..Len(ks) |-> m[ks[i]]]

RECURSIVE Concat(_)
Concat(seqs) ==
    IF seqs = << >> THEN << >> ELSE Head(seqs) \o Concat(Tail(seqs))

\* Iterator::flat_map(BTreeMap::values) over a sequence of maps.
FlatMapValues(maps) == Concat([i \in 1..Len(maps) |-> Values(maps[i])])

\* BTreeMap::insert: insert or overwrite.
MapPut(m, k, v) == [x \in DOMAIN m \cup {k} |-> IF x = k THEN v ELSE m[x]]

\* BTreeMap::entry(k).or_default(): the value at k, or an empty map.
EntryOrDefault(m, k) == IF k \in DOMAIN m THEN m[k] ELSE EmptyMap

\* BTreeMap::split_off(&k): everything at and after the key.
split_off(m, k) == [x \in {y \in DOMAIN m : y >= k} |-> m[x]]

(***************************************************************************)
(* The subscription tracker.                                               *)
(***************************************************************************)
Slots == 0..MaxSlot
Validators == 0..MaxValidator
Committees == 0..MaxCommittee

BeaconCommitteeSubscription ==
    [slot : Slots, validator_index : Validators,
     committee_index : Committees, is_aggregator : BOOLEAN]

\* misc::compute_epoch_at_slot::<P>
compute_epoch_at_slot(slot) == slot \div SlotsPerEpoch

Epochs == 0..compute_epoch_at_slot(MaxSlot)

\* A variant of Insert that keeps an entry already present (BTreeMap::entry(..).or_insert).
Insert_KeepExisting(m, subscription) ==
    LET epoch == compute_epoch_at_slot(subscription.slot)
        byValidator == EntryOrDefault(m, epoch)
        byCommittee == EntryOrDefault(byValidator, subscription.validator_index)
        c == subscription.committee_index
    IN  MapPut(m, epoch,
            MapPut(byValidator, subscription.validator_index,
                IF c \in DOMAIN byCommittee THEN byCommittee
                ELSE MapPut(byCommittee, c, subscription)))

\* A variant of Insert that files a subscription under its slot instead of its epoch.
Insert_BySlot(m, subscription) ==
    LET byValidator == EntryOrDefault(m, subscription.slot)
        byCommittee == EntryOrDefault(byValidator, subscription.validator_index)
    IN  MapPut(m, subscription.slot,
            MapPut(byValidator, subscription.validator_index,
                MapPut(byCommittee, subscription.committee_index, subscription)))

\* The body of the loop of update: file one subscription.
Insert(m, subscription) ==
    LET epoch == compute_epoch_at_slot(subscription.slot)
        byValidator == EntryOrDefault(m, epoch)
        byCommittee == EntryOrDefault(byValidator, subscription.validator_index)
    IN  MapPut(m, epoch,
            MapPut(byValidator, subscription.validator_index,
                MapPut(byCommittee, subscription.committee_index, subscription)))

\* The loop of update without its starting point.
RECURSIVE InsertAll(_, _)
InsertAll(m, batch) ==
    IF batch = << >> THEN m ELSE InsertAll(Insert(m, Head(batch)), Tail(batch))

\* A variant of update that starts from an empty map: the batch replaces what was held.
update_Replaces(m, batch) == InsertAll(EmptyMap, batch)

\* update: the loop over the batch, in iteration order, on the map as it is.
update(m, batch) == InsertAll(m, batch)

\* A variant of discard that drops the result of split_off, so that the tracker keeps
\* what split_off leaves behind: the epochs before the given one.
discard_KeepsOlder(m, epoch) == [x \in {y \in DOMAIN m : y < epoch} |-> m[x]]

\* A variant of discard that also evicts the given epoch itself.
discard_Exclusive(m, epoch) == [x \in {y \in DOMAIN m : y > epoch} |-> m[x]]

\* discard_old_subscriptions
discard_old_subscriptions(m, epoch) == split_off(m, epoch)

\* A variant of all over a map that does not iterate in ascending key order.
all_Unordered(m) ==
    LET fwd == FlatMapValues(FlatMapValues(Values(m)))
    IN  [i \in 1..Len(fwd) |-> fwd[Len(fwd) + 1 - i]]

\* all: values().flat_map(values).flat_map(values).copied()
all(m) == FlatMapValues(FlatMapValues(Values(m)))

\* A variant in which all() takes the map out of the tracker.
SubsAfterAll_Taken(m) == EmptyMap

\* all takes &self: the tracker is left as it was.
SubsAfterAll(m) == m

\* ---- history bookkeeping (not program state) ----
Key(s) == <<compute_epoch_at_slot(s.slot), s.validator_index, s.committee_index>>

BatchKeys(batch) == {Key(batch[i]) : i \in 1..Len(batch)}

IndicesOf(batch, k) == {i \in 1..Len(batch) : Key(batch[i]) = k}

MaxOf(S) == CHOOSE x \in S : \A y \in S : y <= x

LastOp == IF ops = << >> THEN "new" ELSE ops[Len(ops)]

Batches == UNION {[1..n -> BeaconCommitteeSubscription] : n \in 0..MaxBatch}

TrackerInit ==
    /\ subscriptions = EmptyMap
    /\ returned = << >>
    /\ ops = << >>
    /\ arg = 0
    /\ batchArg = << >>
    /\ submitted = EmptyMap
    /\ prior = EmptyMap
    /\ evicted = {}
    /\ nsubs = 0

Update(batch) ==
    /\ Len(ops) < MaxOps
    /\ nsubs + Len(batch) <= MaxSubs
    /\ subscriptions' = update(subscriptions, batch)
    /\ ops' = Append(ops, "update")
    /\ batchArg' = batch
    /\ nsubs' = nsubs + Len(batch)
    /\ submitted' = [k \in DOMAIN submitted \cup BatchKeys(batch) |->
                        IF k \in BatchKeys(batch)
                        THEN batch[MaxOf(IndicesOf(batch, k))] ELSE submitted[k]]
    /\ prior' =
        LET again == {k \in BatchKeys(batch) :
                        k \in DOMAIN submitted \/ Cardinality(IndicesOf(batch, k)) >= 2}
        IN  [k \in DOMAIN prior \cup again |->
                IF k \in again
                THEN LET is == IndicesOf(batch, k)
                     IN  IF Cardinality(is) >= 2
                         THEN batch[MaxOf(is \ {MaxOf(is)})] ELSE submitted[k]
                ELSE prior[k]]
    /\ evicted' = evicted \ BatchKeys(batch)
    /\ UNCHANGED <<returned, arg>>
    /\ UNCHANGED notSubsVars

Discard(epoch) ==
    /\ Len(ops) < MaxOps
    /\ subscriptions' = discard_old_subscriptions(subscriptions, epoch)
    /\ ops' = Append(ops, "discard")
    /\ arg' = epoch
    /\ evicted' = evicted \cup {k \in DOMAIN submitted : k[1] < epoch}
    /\ UNCHANGED <<returned, batchArg, submitted, prior, nsubs>>
    /\ UNCHANGED notSubsVars

All ==
    /\ Len(ops) < MaxOps
    /\ returned' = all(subscriptions)
    /\ subscriptions' = SubsAfterAll(subscriptions)
    /\ ops' = Append(ops, "all")
    /\ UNCHANGED <<arg, batchArg, submitted, prior, evicted, nsubs>>
    /\ UNCHANGED notSubsVars

(***************************************************************************)
(* The API error: http_api_utils/src/error.rs.                             *)
(***************************************************************************)
BAD_REQUEST == 400

Directions == {"request", "response"}
Uris == {"/a", "/b"}
Messages == {"cause1", "cause2"}

\* anyhow::Error: a chain of at least one error, outermost first, given by the messages.
Chains == UNION {[1..n -> Messages] : n \in 1..MaxChain}

Errors == [kind : {"InvalidBody"}, direction : Directions, uri : Uris, source : Chains]

\* Display of misc::Direction.
DisplayDirection(direction) == direction

\* #[error("failed to read {direction} body for {uri}")]
OwnMessage(e) ==
    "failed to read " \o DisplayDirection(e.direction) \o " body for " \o e.uri

\* An error of the chain is referred to by its position: 0 is the Error itself,
\* i >= 1 is the i-th error of the anyhow chain.
Display(e, ref) == IF ref = 0 THEN OwnMessage(e) ELSE e.source[ref]

\* A variant of source that stops at the outermost cause: the chain is not followed.
Source_OuterOnly(e, ref) == IF ref = 0 THEN Some(1) ELSE None

\* StdError::source: the #[source] field of the Error, then the anyhow chain.
Source(e, ref) == IF ref < Len(e.source) THEN Some(ref + 1) ELSE None

\* A variant of the cursor's start that skips the Error itself: Some(self.source()).
SourcesStart_FromCause(e) == Source(e, 0)

\* let mut error: Option<&dyn StdError> = Some(self);
SourcesStart(e) == Some(0)

\* A variant of status_code that tells the two directions apart.
status_code_ByDirection(e) ==
    IF e.direction = "response" THEN 500 ELSE BAD_REQUEST

\* status_code: the match over the kinds.
status_code(e) ==
    CASE e.kind = "InvalidBody" -> BAD_REQUEST

ErrorInit ==
    /\ err \in Errors
    /\ error = None
    /\ yielded = << >>
    /\ rendered = ""
    /\ response = None
    /\ pcErr = "ready"

\* format_sources(): sources() creates the iterator; nothing is polled yet.
FormatSources ==
    /\ pcErr \in {"ready", "formatted"}
    /\ error' = SourcesStart(err)
    /\ yielded' = << >>
    /\ rendered' = ""
    /\ pcErr' = "formatting"
    /\ UNCHANGED <<err, response>>
    /\ UNCHANGED notErrVars

\* One call of the closure given to from_fn, made by the Display of itertools' Format:
\* `error?` ends the iteration on None; otherwise the cursor moves to the source and
\* the error it held is yielded, written after ": " unless it is the first.
SourcesNext ==
    /\ pcErr = "formatting"
    /\ IF error = None
       THEN /\ pcErr' = "formatted"
            /\ UNCHANGED <<error, yielded, rendered>>
       ELSE /\ error' = Source(err, Unwrap(error))
            /\ yielded' = Append(yielded, Display(err, Unwrap(error)))
            /\ rendered' = IF yielded = << >>
                            THEN Display(err, Unwrap(error))
                            ELSE rendered \o ": " \o Display(err, Unwrap(error))
            /\ pcErr' = "formatting"
    /\ UNCHANGED <<err, response>>
    /\ UNCHANGED notErrVars

\* into_response(self): the status code's response; the error is consumed.
IntoResponse ==
    /\ pcErr \in {"ready", "formatted"}
    /\ response' = Some([status |-> status_code(err)])
    /\ pcErr' = "responded"
    /\ UNCHANGED <<err, error, yielded, rendered>>
    /\ UNCHANGED notErrVars

(***************************************************************************)
(* Context::try_run_case: http_api/src/context.rs.                         *)
(***************************************************************************)
ExecutionBlockHashes == 1..MaxHash

PayloadStatus == {"Valid", "Invalid", "Optimistic"}

\* A block is given by what matters here: SignedBeaconBlock::execution_block_hash,
\* None before the merge.
Blocks == {None} \cup {Some(h) : h \in ExecutionBlockHashes}

\* Result<()>: what try_run_case and the racers return.
Ok == [ok |-> TRUE, cause |-> "none"]
Err(cause) == [ok |-> FALSE, cause |-> cause]

\* The channels allocated at the start of try_run_case, by the names of their endpoints.
Channels ==
    {"api_to_liveness", "api_to_p2p", "api_to_validator", "fc_to_api", "fc_to_p2p",
     "fc_to_subnet", "fc_to_sync", "fc_to_validator", "p2p_to_validator", "pool_to_api",
     "pool_to_liveness", "pool_to_p2p", "subnet_service_to_p2p", "sync_to_api",
     "subnet_service", "validator_to_api", "validator_to_liveness", "validator_to_p2p",
     "execution_service"}

Endpoints == Channels \X {"tx", "rx"}

\* A variant of the allocation that binds `_` to the receiver of p2p_to_validator.
Allocated_DropsReceiver ==
    [e \in Endpoints |->
        IF e = <<"p2p_to_validator", "rx">> THEN {} ELSE {"try_run_case"}]

\* The `let (.._tx, .._rx) = unbounded()` statements: each endpoint is held by a
\* variable of try_run_case, except the sender bound to `_`, which is dropped at once.
Allocated ==
    [e \in Endpoints |->
        IF e = <<"p2p_to_validator", "tx">> THEN {} ELSE {"try_run_case"}]

To(channel, end, holder) ==
    [channel |-> channel, end |-> end, to |-> holder, clone |-> FALSE]

CloneTo(channel, holder) ==
    [channel |-> channel, end |-> "tx", to |-> holder, clone |-> TRUE]

\* The endpoints each step of try_run_case passes on, and to whom.
Moves(step) ==
    CASE step = "execution_engine" ->
            {To("execution_service", "tx", "execution_engine")}
      [] step = "controller" ->
            {To("fc_to_api", "tx", "controller"), To("fc_to_p2p", "tx", "controller"),
             To("fc_to_subnet", "tx", "controller"), To("fc_to_sync", "tx", "controller"),
             To("fc_to_validator", "tx", "controller")}
      [] step = "execution_service" ->
            {To("execution_service", "rx", "execution_service")}
      [] step = "components" ->
            {To("pool_to_liveness", "tx", "sync_committee_agg_pool"),
             CloneTo("pool_to_p2p", "sync_committee_agg_pool"),
             To("pool_to_api", "tx", "bls_to_execution_change_pool"),
             To("pool_to_p2p", "tx", "bls_to_execution_change_pool"),
             To("api_to_liveness", "rx", "liveness_tracker"),
             To("pool_to_liveness", "rx", "liveness_tracker"),
             To("validator_to_liveness", "rx", "liveness_tracker"),
             To("api_to_validator", "rx", "validator"),
             To("fc_to_validator", "rx", "validator"),
             To("validator_to_p2p", "tx", "validator"),
             To("p2p_to_validator", "rx", "validator"),
             CloneTo("subnet_service", "validator"),
             To("validator_to_api", "tx", "validator"),
             To("validator_to_liveness", "tx", "validator"),
             To("subnet_service_to_p2p", "tx", "subnet_service"),
             To("fc_to_subnet", "rx", "subnet_service"),
             To("subnet_service", "rx", "subnet_service")}
      [] step = "http_api" ->
            {To("api_to_liveness", "tx", "http_api"), To("api_to_p2p", "tx", "http_api"),
             To("api_to_validator", "tx", "http_api"), To("fc_to_api", "rx", "http_api"),
             To("pool_to_api", "rx", "http_api"), To("subnet_service", "tx", "http_api"),
             To("sync_to_api", "rx", "http_api"), To("validator_to_api", "rx", "http_api"),
             To("api_to_p2p", "rx", "test_state"), To("fc_to_p2p", "rx", "test_state"),
             To("fc_to_sync", "rx", "test_state"), To("pool_to_p2p", "rx", "test_state"),
             To("subnet_service_to_p2p", "rx", "test_state"),
             To("validator_to_p2p", "rx", "test_state")}
      [] OTHER -> {}

\* The endpoints after a step: an endpoint that try_run_case holds goes to the ones it
\* is passed to; it leaves the variable of try_run_case unless it was only cloned.
Wire(eps, step) ==
    IF step = "channels" THEN Allocated
    ELSE [e \in DOMAIN eps |->
            LET ms == {m \in Moves(step) : <<m.channel, m.end>> = e}
                held == eps[e]
            IN  IF ms = {} \/ "try_run_case" \notin held THEN held
                ELSE (IF \A m \in ms : m.clone THEN held ELSE held \ {"try_run_case"})
                        \cup {m.to : m \in ms}]

\* A variant of the program that feeds the extra blocks before the payload statuses.
Program_BlocksFirst ==
    <<"channels", "eth1_chain", "unfinalized_blocks_tracker", "execution_engine", "load",
      "controller", "extra_blocks", "payload_statuses", "execution_service",
      "slashing_protector", "register_validators", "components", "incoming", "http_api",
      "sends", "race">>

\* The steps of try_run_case, in the order of the code.
Program ==
    <<"channels", "eth1_chain", "unfinalized_blocks_tracker", "execution_engine", "load",
      "controller", "payload_statuses", "extra_blocks", "execution_service",
      "slashing_protector", "register_validators", "components", "incoming", "http_api",
      "sends", "race">>

\* The endpoints after the first n steps of try_run_case.
RECURSIVE WiredAfter(_)
WiredAfter(n) == IF n = 0 THEN EmptyMap ELSE Wire(WiredAfter(n - 1), Program[n])

\* A function written out entry by entry.
RECURSIVE WrittenOut(_, _)
WrittenOut(f, S) ==
    IF S = {} THEN EmptyMap
    ELSE LET x == CHOOSE y \in S : TRUE IN (x :> f[x]) @@ WrittenOut(f, S \ {x})

\* The endpoints once every component is built.
FullyWired == WrittenOut(WiredAfter(Len(Program) - 1), Endpoints)

\* Who holds each endpoint now.
endpoints == IF wired = Len(Program) - 1 THEN FullyWired ELSE WiredAfter(wired)

\* The steps that are loops, carried out one iteration at a time.
Loops == {"payload_statuses", "extra_blocks"}

\* The steps whose call returns a Result.
CanFail ==
    {"eth1_chain", "unfinalized_blocks_tracker", "load", "controller",
     "slashing_protector", "register_validators", "incoming"}

\* A variant in which the result of register_validators is not looked at.
Fallible_IgnoresRegister ==
    {"eth1_chain", "unfinalized_blocks_tracker", "load", "controller",
     "slashing_protector", "incoming"}

\* The steps that end in `?`.
Fallible ==
    {"eth1_chain", "unfinalized_blocks_tracker", "load", "controller",
     "slashing_protector", "register_validators", "incoming"}

Done == Len(Program) + 1

\* A variant of `?` that tries the failed step again.
AfterFailure_Retry(p) == p

\* `?` on an error returns from try_run_case.
AfterFailure(p) == Done

At(step) == pc <= Len(Program) /\ Program[pc] = step

PcOf(step) == CHOOSE i \in 1..Len(Program) : Program[i] = step

\* A variant that takes the first extra block instead of the last.
LastOrAnchor_First(blocks) == IF blocks = << >> THEN 0 ELSE 1

\* extra_blocks.last().unwrap_or(&anchor_block): the block whose tick the controller
\* starts from; 0 is the anchor block, i >= 1 the i-th extra block.
LastOrAnchor(blocks) == IF blocks = << >> THEN 0 ELSE Len(blocks)

\* Tick::block_proposal
block_proposal(block) == [block |-> block, kind |-> "Propose"]

\* A variant of the match that reports an Optimistic status as a valid payload.
Notification_OptimisticAsValid(execution_block_hash, payload_status) ==
    CASE payload_status = "Valid" ->
            Some([op |-> "on_notified_valid_payload", hash |-> execution_block_hash])
      [] payload_status = "Invalid" ->
            Some([op |-> "on_notified_invalid_payload", hash |-> execution_block_hash,
                  reason |-> None])
      [] payload_status = "Optimistic" ->
            Some([op |-> "on_notified_valid_payload", hash |-> execution_block_hash])

\* The match of the first loop: the call a supplied payload status leads to, if any.
Notification(execution_block_hash, payload_status) ==
    CASE payload_status = "Valid" ->
            Some([op |-> "on_notified_valid_payload", hash |-> execution_block_hash])
      [] payload_status = "Invalid" ->
            Some([op |-> "on_notified_invalid_payload", hash |-> execution_block_hash,
                  reason |-> None])
      [] payload_status = "Optimistic" -> None

\* ---- the channels ----
\* queue, sent and received hold the channels that have carried a message.
OnChannel(f, channel) == IF channel \in DOMAIN f THEN f[channel] ELSE << >>

RECURSIVE SumLen(_, _)
SumLen(f, S) ==
    IF S = {} THEN 0
    ELSE LET x == CHOOSE y \in S : TRUE IN Len(f[x]) + SumLen(f, S \ {x})

\* The number of messages sent so far, over all channels.
SentSoFar == SumLen(sent, DOMAIN sent)

\* A message, with its sender and its place in the order of all sends.
Message(from, body, at) == [from |-> from, body |-> body, at |-> at]

\* A variant that allocates the channels with channel(1): a queue holds one message.
HasRoom_Bounded(q) == Len(q) < 1

\* futures::channel::mpsc::unbounded(): a queue takes a message whatever it holds.
HasRoom(q) == TRUE

\* A variant of the queue that hands out the newest message first.
Enqueue_Front(q, message) == <<message>> \o q

\* UnboundedSender::unbounded_send: the message goes to the end of the queue.
Enqueue(q, message) == Append(q, message)

\* The two SyncToApi messages sent just before the race.
SyncSends == <<"SyncStatus(true)", "BackSyncStatus(true)">>

\* The state of the channels after the two sends, given what it was before.
QueueAfterSends(q, n) ==
    MapPut(q, "sync_to_api",
        Enqueue(Enqueue(OnChannel(q, "sync_to_api"),
                        Message("try_run_case", SyncSends[1], n + 1)),
                Message("try_run_case", SyncSends[2], n + 2)))

SentAfterSends(s, n) ==
    MapPut(s, "sync_to_api",
        OnChannel(s, "sync_to_api")
            \o <<Message("try_run_case", SyncSends[1], n + 1),
                 Message("try_run_case", SyncSends[2], n + 2)>>)

CaseInit ==
    /\ payload_statuses \in
        UNION {[1..n -> ExecutionBlockHashes \X PayloadStatus] : n \in 0..MaxStatuses}
    /\ extra_blocks \in UNION {[1..n -> Blocks] : n \in 0..MaxBlocks}
    /\ pc = 1
    /\ next_status = 0
    /\ next_block = 0
    /\ calls = << >>
    /\ result = None

\* Before try_run_case has done anything.
WireInit ==
    /\ wired = 0
    /\ tick = None
    /\ attempts = << >>
    /\ failures = {}

ChanInit ==
    /\ queue = EmptyMap
    /\ sent = EmptyMap
    /\ received = EmptyMap
    /\ request = "none"
    /\ servedAfter = None

ControllerInit ==
    /\ block_tasks = {}
    /\ mutator_queue = << >>
    /\ verdicts = EmptyMap
    /\ ingested = {}
    /\ archivable = {}
    /\ finalized = {}
    /\ persisted = {}

\* A straight-line step, its fallible call, if any, succeeding.
Construct ==
    /\ pc <= Len(Program)
    /\ Program[pc] \notin Loops \cup {"race"}
    /\ Program[pc] = "sends" =>
            /\ HasRoom(OnChannel(queue, "sync_to_api"))
            /\ HasRoom(Enqueue(OnChannel(queue, "sync_to_api"),
                               Message("try_run_case", SyncSends[1], SentSoFar + 1)))
    /\ pc' = pc + 1
    /\ attempts' = Append(attempts, Program[pc])
    /\ wired' = pc
    /\ tick' = IF Program[pc] = "controller"
               THEN Some(block_proposal(LastOrAnchor(extra_blocks))) ELSE tick
    /\ IF Program[pc] = "sends"
       THEN /\ queue' = QueueAfterSends(queue, SentSoFar)
            /\ sent' = SentAfterSends(sent, SentSoFar)
       ELSE UNCHANGED <<queue, sent>>
    /\ UNCHANGED <<payload_statuses, extra_blocks, next_status, next_block, calls, result>>
    /\ UNCHANGED <<failures, received, request, servedAfter>>
    /\ UNCHANGED controllerVars
    /\ UNCHANGED raceVars
    /\ UNCHANGED notRunVars

\* The call of a step fails. Where the step ends in `?` the error is returned from
\* try_run_case; elsewhere nobody looks at it.
ConstructFails ==
    /\ pc <= Len(Program)
    /\ Program[pc] \in CanFail
    /\ attempts' = Append(attempts, Program[pc])
    /\ failures' = failures \cup {Program[pc]}
    /\ IF Program[pc] \in Fallible
       THEN /\ result' = Some(Err(Program[pc]))
            /\ pc' = AfterFailure(pc)
       ELSE /\ pc' = pc + 1
            /\ UNCHANGED result
    /\ UNCHANGED <<payload_statuses, extra_blocks, next_status, next_block, calls>>
    /\ UNCHANGED <<wired, tick>>
    /\ UNCHANGED chanVars
    /\ UNCHANGED controllerVars
    /\ UNCHANGED raceVars
    /\ UNCHANGED notRunVars

\* One iteration of `for (execution_block_hash, payload_status) in payload_statuses`,
\* or the end of the loop. A notification goes straight to the mutator.
SubmitPayloadStatus ==
    /\ At("payload_statuses")
    /\ IF next_status < Len(payload_statuses)
       THEN LET item == payload_statuses[next_status + 1]
                call == Notification(item[1], item[2])
            IN  /\ next_status' = next_status + 1
                /\ IF call = None
                   THEN UNCHANGED <<calls, mutator_queue>>
                   ELSE /\ calls' = Append(calls, Unwrap(call))
                        /\ mutator_queue' = Append(mutator_queue, Unwrap(call))
                /\ pc' = pc
                /\ UNCHANGED attempts
       ELSE /\ pc' = pc + 1
            /\ attempts' = Append(attempts, Program[pc])
            /\ UNCHANGED <<next_status, calls, mutator_queue>>
    /\ UNCHANGED <<payload_statuses, extra_blocks, next_block, result>>
    /\ UNCHANGED <<wired, tick, failures>>
    /\ UNCHANGED chanVars
    /\ UNCHANGED <<block_tasks, verdicts, ingested, archivable, finalized, persisted>>
    /\ UNCHANGED raceVars
    /\ UNCHANGED notRunVars

\* One iteration of `for block in extra_blocks`, or the end of the loop.
\* on_requested_block hands the block to a validation task and returns.
SubmitBlock ==
    /\ At("extra_blocks")
    /\ IF next_block < Len(extra_blocks)
       THEN /\ next_block' = next_block + 1
            /\ calls' = Append(calls, [op |-> "on_requested_block", block |-> next_block + 1])
            /\ block_tasks' = block_tasks \cup {next_block + 1}
            /\ pc' = pc
            /\ UNCHANGED attempts
       ELSE /\ pc' = pc + 1
            /\ attempts' = Append(attempts, Program[pc])
            /\ UNCHANGED <<next_block, calls, block_tasks>>
    /\ UNCHANGED <<payload_statuses, extra_blocks, next_status, result>>
    /\ UNCHANGED <<wired, tick, failures>>
    /\ UNCHANGED chanVars
    /\ UNCHANGED <<mutator_queue, verdicts, ingested, archivable, finalized, persisted>>
    /\ UNCHANGED raceVars
    /\ UNCHANGED notRunVars

\* ---- the controller: fork_choice_control is not part of the sources read here ----

\* Whether a block is eligible for archival, decided when it is ingested: its payload
\* has been confirmed valid, or it has no payload.
ArchivableAtIngestion(block, known) ==
    \/ extra_blocks[block] = None
    \/ /\ Unwrap(extra_blocks[block]) \in DOMAIN known
       /\ known[Unwrap(extra_blocks[block])] = "Valid"

\* A validation task ends and reports the block to the mutator.
BlockValidated(block) ==
    /\ block \in block_tasks
    /\ block_tasks' = block_tasks \ {block}
    /\ mutator_queue' = Append(mutator_queue, [op |-> "block", block |-> block])
    /\ UNCHANGED <<verdicts, ingested, archivable, finalized, persisted>>
    /\ UNCHANGED caseVars
    /\ UNCHANGED wireVars
    /\ UNCHANGED chanVars
    /\ UNCHANGED raceVars
    /\ UNCHANGED notRunVars

\* The mutator handles its next message. A verdict is recorded, also for a hash no
\* ingested block has; a block is ingested and archival is decided once, then.
MutatorHandles ==
    /\ mutator_queue # << >>
    /\ LET message == Head(mutator_queue) IN
       /\ mutator_queue' = Tail(mutator_queue)
       /\ CASE message.op = "on_notified_valid_payload" ->
                /\ verdicts' = MapPut(verdicts, message.hash, "Valid")
                /\ UNCHANGED <<ingested, archivable>>
            [] message.op = "on_notified_invalid_payload" ->
                /\ verdicts' = MapPut(verdicts, message.hash, "Invalid")
                /\ UNCHANGED <<ingested, archivable>>
            [] message.op = "block" ->
                /\ ingested' = ingested \cup {message.block}
                /\ archivable' =
                    IF ArchivableAtIngestion(message.block, verdicts)
                    THEN archivable \cup {message.block} ELSE archivable
                /\ UNCHANGED verdicts
    /\ UNCHANGED <<block_tasks, finalized, persisted>>
    /\ UNCHANGED caseVars
    /\ UNCHANGED wireVars
    /\ UNCHANGED chanVars
    /\ UNCHANGED raceVars
    /\ UNCHANGED notRunVars

\* An ingested block becomes finalized; it is written out if it was found archivable.
Finalize(block) ==
    /\ block \in ingested \ finalized
    /\ finalized' = finalized \cup {block}
    /\ persisted' = IF block \in archivable THEN persisted \cup {block} ELSE persisted
    /\ UNCHANGED <<block_tasks, mutator_queue, verdicts, ingested, archivable>>
    /\ UNCHANGED caseVars
    /\ UNCHANGED wireVars
    /\ UNCHANGED chanVars
    /\ UNCHANGED raceVars
    /\ UNCHANGED notRunVars

(***************************************************************************)
(* The supervisor's race: the select_biased! that ends try_run_case.       *)
(***************************************************************************)
\* A variant of the order that polls the validator before the HTTP API.
RacerNames_ValidatorFirst ==
    <<"validator", "run_http_api", "join_mutator", "execution_service",
      "bls_to_execution_change_pool_service", "liveness_tracker", "subnet_service",
      "submit_requests">>

\* A variant of the order that polls the scripted requests before the HTTP API.
RacerNames_RequestsFirst ==
    <<"submit_requests", "run_http_api", "join_mutator", "execution_service",
      "bls_to_execution_change_pool_service", "liveness_tracker", "validator",
      "subnet_service">>

\* The arms of select_biased!, in the order written.
RacerNames ==
    <<"run_http_api", "join_mutator", "execution_service",
      "bls_to_execution_change_pool_service", "liveness_tracker", "validator",
      "subnet_service", "submit_requests">>

Racers == 1..Len(RacerNames)

RacerOf(name) == CHOOSE r \in Racers : RacerNames[r] = name

\* What a racer resolves with.
OutcomeOf(racer) == IF fate[racer] = "ok" THEN Ok ELSE Err(RacerNames[racer])

\* A variant of the arms that keeps racing when a racer resolves with Ok.
Arm_IgnoresOk(racer, outcome) == IF outcome.ok THEN None ELSE Some(outcome)

\* A variant of the arms that swallows a racer's error and keeps racing.
Arm_SwallowsErr(racer, outcome) == IF outcome.ok THEN Some(outcome) ELSE None

\* Every arm is `result = <racer>.fuse() => result`: the select ends with the outcome.
Arm(racer, outcome) == Some(outcome)

RaceInit ==
    /\ fate \in {f \in [Racers -> {"never", "ok", "err"}] :
                    Cardinality({r \in Racers : f[r] # "never"}) <= MaxResolving}
    /\ status \in {st \in [Racers -> {"pending", "ready"}] :
                    \A r \in Racers : st[r] = "ready" => fate[r] # "never"}
    /\ pollPos = 0
    /\ woken = TRUE
    /\ resolved = << >>
    /\ polled = {}
    /\ observed = {}

\* What a racer is waiting for happens: its next poll will return Ready. Its waker
\* wakes the task that runs the select.
BecomesReady(racer) ==
    /\ At("race")
    /\ status[racer] = "pending"
    /\ fate[racer] # "never"
    /\ status' = [status EXCEPT ![racer] = "ready"]
    /\ woken' = TRUE
    /\ UNCHANGED <<fate, pollPos, resolved, polled, observed>>
    /\ UNCHANGED caseVars
    /\ UNCHANGED wireVars
    /\ UNCHANGED chanVars
    /\ UNCHANGED controllerVars
    /\ UNCHANGED notRunVars

\* A racer makes progress without finishing and wakes the task.
Wakes ==
    /\ At("race")
    /\ ~woken
    /\ woken' = TRUE
    /\ UNCHANGED <<fate, status, pollPos, resolved, polled, observed>>
    /\ UNCHANGED caseVars
    /\ UNCHANGED wireVars
    /\ UNCHANGED chanVars
    /\ UNCHANGED controllerVars
    /\ UNCHANGED notRunVars

\* block_on polls the select: the first time, and again whenever the task was woken.
PollSelect ==
    /\ At("race")
    /\ pollPos = 0
    /\ woken
    /\ pollPos' = 1
    /\ woken' = FALSE
    /\ observed' = {}
    /\ UNCHANGED <<fate, status, resolved, polled>>
    /\ UNCHANGED caseVars
    /\ UNCHANGED wireVars
    /\ UNCHANGED chanVars
    /\ UNCHANGED controllerVars
    /\ UNCHANGED notRunVars

\* ---- run loops: HttpApi::run_internal and Case::run are not part of the sources ----

\* A poll of the HTTP API that does not complete: it takes every message waiting on
\* sync_to_api and, if the scripted request has arrived, may serve it; the order in
\* which it attends to the two is its own.
ApiPoll ==
    /\ received' = MapPut(received, "sync_to_api",
                        OnChannel(received, "sync_to_api") \o OnChannel(queue, "sync_to_api"))
    /\ queue' = MapPut(queue, "sync_to_api", << >>)
    /\ UNCHANGED sent
    /\ \/ /\ request = "issued"
          /\ request' = "served"
          /\ \E k \in 0..Len(OnChannel(queue, "sync_to_api")) :
                servedAfter' = Some(OnChannel(received, "sync_to_api")
                                        \o SubSeq(OnChannel(queue, "sync_to_api"), 1, k))
          /\ woken' = TRUE
       \/ UNCHANGED <<request, servedAfter, woken>>

\* A poll of the scripted request sequence that does not complete: the first one
\* issues the first request, whose arrival wakes the task.
RequestsPoll ==
    IF request = "none"
    THEN /\ request' = "issued"
         /\ woken' = TRUE
         /\ UNCHANGED <<queue, sent, received, servedAfter>>
    ELSE UNCHANGED <<queue, sent, received, request, servedAfter, woken>>

\* What a poll that returns Pending does, by racer.
RunLoop(racer) ==
    CASE RacerNames[racer] = "run_http_api" -> ApiPoll
      [] RacerNames[racer] = "submit_requests" -> RequestsPoll
      [] OTHER -> UNCHANGED <<queue, sent, received, request, servedAfter, woken>>

\* The select polls its next racer, in the order of the arms. A racer that returns
\* Ready ends the select with what its arm evaluates to; after the last pending racer
\* the select returns Pending. A fused racer that has resolved is not polled again.
PollRacer ==
    /\ At("race")
    /\ pollPos \in Racers
    /\ LET racer == pollPos
           after == IF pollPos < Len(RacerNames) THEN pollPos + 1 ELSE 0
       IN  /\ polled' = polled \cup {racer}
           /\ observed' = observed \cup {<<racer, status[racer]>>}
           /\ IF status[racer] = "ready"
              THEN /\ status' = [status EXCEPT ![racer] = "resolved"]
                   /\ resolved' = Append(resolved, racer)
                   /\ failures' = IF OutcomeOf(racer).ok THEN failures
                                  ELSE failures \cup {RacerNames[racer]}
                   /\ IF Arm(racer, OutcomeOf(racer)) # None
                      THEN /\ result' = Arm(racer, OutcomeOf(racer))
                           /\ pc' = Done
                           /\ pollPos' = 0
                      ELSE /\ pollPos' = after
                           /\ UNCHANGED <<result, pc>>
                   /\ UNCHANGED <<queue, sent, received, request, servedAfter, woken>>
              ELSE /\ pollPos' = after
                   /\ UNCHANGED <<status, resolved, result, pc, failures>>
                   /\ RunLoop(racer)
    /\ UNCHANGED fate
    /\ UNCHANGED <<payload_statuses, extra_blocks, next_status, next_block, calls>>
    /\ UNCHANGED <<wired, tick, attempts>>
    /\ UNCHANGED controllerVars
    /\ UNCHANGED notRunVars

(***************************************************************************)
(* The channels while the components run.                                  *)
(***************************************************************************)
\* A component sends on a channel whose sender it holds.
Send(channel, producer) ==
    /\ At("race")
    /\ producer \in endpoints[<<channel, "tx">>]
    /\ producer # "try_run_case"
    /\ SentSoFar < Len(SyncSends) + MaxSent
    /\ HasRoom(OnChannel(queue, channel))
    /\ queue' = MapPut(queue, channel,
                    Enqueue(OnChannel(queue, channel),
                            Message(producer, "message", SentSoFar + 1)))
    /\ sent' = MapPut(sent, channel,
                    Append(OnChannel(sent, channel),
                           Message(producer, "message", SentSoFar + 1)))
    /\ UNCHANGED <<received, request, servedAfter>>
    /\ UNCHANGED caseVars
    /\ UNCHANGED wireVars
    /\ UNCHANGED controllerVars
    /\ UNCHANGED raceVars
    /\ UNCHANGED notRunVars

\* The holder of a channel's receiver takes the next message.
Receive(channel) ==
    /\ At("race")
    /\ endpoints[<<channel, "rx">>] # {}
    /\ OnChannel(queue, channel) # << >>
    /\ received' = MapPut(received, channel,
                        Append(OnChannel(received, channel), Head(queue[channel])))
    /\ queue' = MapPut(queue, channel, Tail(queue[channel]))
    /\ UNCHANGED <<sent, request, servedAfter>>
    /\ UNCHANGED caseVars
    /\ UNCHANGED wireVars
    /\ UNCHANGED controllerVars
    /\ UNCHANGED raceVars
    /\ UNCHANGED notRunVars

(***************************************************************************)
(* The locks around the slashing protector and the signer.                 *)
(***************************************************************************)
Locks == {"slashing_protector", "signer"}

\* The tasks that hold a clone of the two Arcs: the validator (0) and the handlers of
\* the API that go through the key manager (1..MaxHandlers).
LockTasks == 0..MaxHandlers

\* A variant that wraps the slashing protector in a reader-writer lock as well.
LockKind_BothRwLock(lock) == "RwLock"

\* Arc::new(Mutex::new(slashing_protector)) and Arc::new(RwLock::new(signer))
LockKind(lock) == IF lock = "slashing_protector" THEN "Mutex" ELSE "RwLock"

\* Mutex::lock; RwLock::read and RwLock::write.
Modes(kind) == IF kind = "Mutex" THEN {"lock"} ELSE {"read", "write"}

\* Whether an acquisition can be granted next to the guards alive.
Compatible(mode, held) ==
    IF mode = "read" THEN \A h \in held : h[2] = "read" ELSE held = {}

TasksIn(S) == {h[1] : h \in S}

notLockVars ==
    <<subsVars, errVars, caseVars, controllerVars, raceVars, wireVars, chanVars>>

LockInit ==
    /\ holders = [l \in Locks |-> {}]
    /\ waiting = [l \in Locks |-> {}]

\* A task calls lock(), read() or write() and awaits the guard.
Request(task, lock, mode) ==
    /\ At("race")
    /\ mode \in Modes(LockKind(lock))
    /\ task \notin TasksIn(holders[lock]) \cup TasksIn(waiting[lock])
    /\ waiting' = [waiting EXCEPT ![lock] = @ \cup {<<task, mode>>}]
    /\ UNCHANGED holders
    /\ UNCHANGED notLockVars

\* The lock grants a pending acquisition.
Acquire(task, lock, mode) ==
    /\ <<task, mode>> \in waiting[lock]
    /\ Compatible(mode, holders[lock])
    /\ waiting' = [waiting EXCEPT ![lock] = @ \ {<<task, mode>>}]
    /\ holders' = [holders EXCEPT ![lock] = @ \cup {<<task, mode>>}]
    /\ UNCHANGED notLockVars

\* A guard is dropped.
Release(task, lock, mode) ==
    /\ <<task, mode>> \in holders[lock]
    /\ holders' = [holders EXCEPT ![lock] = @ \ {<<task, mode>>}]
    /\ UNCHANGED waiting
    /\ UNCHANGED notLockVars

\* The parts at rest, for the specifications of the other parts.
TrackerIdle == TrackerInit

ErrorIdle ==
    /\ err = None
    /\ error = None
    /\ yielded = << >>
    /\ rendered = ""
    /\ response = None
    /\ pcErr = "ready"

CaseIdle ==
    /\ payload_statuses = << >>
    /\ extra_blocks = << >>
    /\ pc = 1
    /\ next_status = 0
    /\ next_block = 0
    /\ calls = << >>
    /\ result = None

RaceIdle ==
    /\ fate = [r \in Racers |-> "never"]
    /\ status = [r \in Racers |-> "pending"]
    /\ pollPos = 0
    /\ woken = TRUE
    /\ resolved = << >>
    /\ polled = {}
    /\ observed = {}

RunIdle == CaseIdle /\ WireInit /\ ChanInit /\ ControllerInit /\ RaceIdle

\* try_run_case at the select, after a construction without payload statuses and
\* extra blocks in which no step failed.
AtTheRace ==
    /\ payload_statuses = << >>
    /\ extra_blocks = << >>
    /\ pc = PcOf("race")
    /\ next_status = 0
    /\ next_block = 0
    /\ calls = << >>
    /\ result = None
    /\ wired = PcOf("race") - 1
    /\ tick = Some(block_proposal(LastOrAnchor(<< >>)))
    /\ attempts = SubSeq(Program, 1, PcOf("race") - 1)
    /\ failures = {}
    /\ queue = QueueAfterSends(EmptyMap, 0)
    /\ sent = SentAfterSends(EmptyMap, 0)
    /\ received = EmptyMap
    /\ request = "none"
    /\ servedAfter = None
    /\ ControllerInit

\* try_run_case about to send the two SyncToApi messages, after a construction without
\* payload statuses and extra blocks in which no step failed.
AtTheSends ==
    /\ payload_statuses = << >>
    /\ extra_blocks = << >>
    /\ pc = PcOf("sends")
    /\ next_status = 0
    /\ next_block = 0
    /\ calls = << >>
    /\ result = None
    /\ wired = PcOf("sends") - 1
    /\ tick = Some(block_proposal(LastOrAnchor(<< >>)))
    /\ attempts = SubSeq(Program, 1, PcOf("sends") - 1)
    /\ failures = {}
    /\ ChanInit
    /\ ControllerInit

InitSubs == TrackerInit /\ ErrorIdle /\ RunIdle /\ LockInit

NextSubs ==
    \/ \E batch \in Batches : Update(batch)
    \/ \E epoch \in 0..(compute_epoch_at_slot(MaxSlot) + 1) : Discard(epoch)
    \/ All

SpecSubs == InitSubs /\ [][NextSubs]_vars

InitErr == ErrorInit /\ TrackerIdle /\ RunIdle /\ LockInit

NextErr ==
    \/ FormatSources
    \/ SourcesNext
    \/ IntoResponse

SpecErr == InitErr /\ [][NextErr]_vars

\* The Display of the formatter, once started, calls the iterator until it ends.
SpecErrFair == SpecErr /\ WF_vars(SourcesNext)

InitCase ==
    /\ CaseInit /\ WireInit /\ ChanInit /\ ControllerInit /\ RaceIdle
    /\ LockInit /\ TrackerIdle /\ ErrorIdle

NextCase ==
    \/ Construct
    \/ ConstructFails
    \/ SubmitPayloadStatus
    \/ SubmitBlock
    \/ \E block \in 1..MaxBlocks : BlockValidated(block)
    \/ MutatorHandles
    \/ \E block \in 1..MaxBlocks : Finalize(block)

SpecCase == InitCase /\ [][NextCase]_vars

\* The construction alone, with extra blocks and no payload statuses.
InitConstruct ==
    /\ payload_statuses = << >>
    /\ extra_blocks \in UNION {[1..n -> Blocks] : n \in 0..MaxExtra}
    /\ pc = 1
    /\ next_status = 0
    /\ next_block = 0
    /\ calls = << >>
    /\ result = None
    /\ WireInit /\ ChanInit /\ ControllerInit /\ RaceIdle
    /\ LockInit /\ TrackerIdle /\ ErrorIdle

NextConstruct ==
    \/ Construct
    \/ ConstructFails
    \/ SubmitPayloadStatus
    \/ SubmitBlock
    \/ \E block \in 1..MaxExtra : BlockValidated(block)
    \/ MutatorHandles
    \/ \E block \in 1..MaxExtra : Finalize(block)

SpecConstruct == InitConstruct /\ [][NextConstruct]_vars

\* The race, entered after a construction without payload statuses and extra blocks.
InitRace == AtTheRace /\ RaceInit /\ LockInit /\ TrackerIdle /\ ErrorIdle

NextRace ==
    \/ \E racer \in Racers : BecomesReady(racer)
    \/ Wakes
    \/ PollSelect
    \/ PollRacer

SpecRace == InitRace /\ [][NextRace]_vars

\* The runtime polls a woken task, and a poll of the select runs to its end.
SpecRaceFair == SpecRace /\ WF_vars(PollSelect) /\ WF_vars(PollRacer)

\* try_run_case from its first statement to the end of the race, without payload
\* statuses and extra blocks.
InitRun ==
    /\ CaseIdle /\ WireInit /\ ChanInit /\ ControllerInit /\ RaceInit
    /\ LockInit /\ TrackerIdle /\ ErrorIdle

NextRun ==
    \/ Construct
    \/ ConstructFails
    \/ SubmitPayloadStatus
    \/ SubmitBlock
    \/ \E racer \in Racers : BecomesReady(racer)
    \/ Wakes
    \/ PollSelect
    \/ PollRacer

SpecRun == InitRun /\ [][NextRun]_vars

\* The components exchanging messages while the race goes on.
InitChan == AtTheRace /\ RaceIdle /\ LockInit /\ TrackerIdle /\ ErrorIdle

NextChan ==
    \/ \E channel \in Channels :
        \E producer \in endpoints[<<channel, "tx">>] : Send(channel, producer)
    \/ \E channel \in Channels : Receive(channel)

SpecChan == InitChan /\ [][NextChan]_vars

\* The sends of try_run_case and then of the components, with consumers that take
\* messages or leave them.
InitSend == AtTheSends /\ RaceIdle /\ LockInit /\ TrackerIdle /\ ErrorIdle

NextSend ==
    \/ Construct
    \/ \E channel \in Channels :
        \E producer \in endpoints[<<channel, "tx">>] : Send(channel, producer)
    \/ \E channel \in Channels : Receive(channel)

SpecSend == InitSend /\ [][NextSend]_vars

\* The tasks taking and dropping the locks while the race goes on.
InitLocks == AtTheRace /\ RaceIdle /\ LockInit /\ TrackerIdle /\ ErrorIdle

NextLocks ==
    \/ \E task \in LockTasks, lock \in Locks, mode \in {"lock", "read", "write"} :
        Request(task, lock, mode)
    \/ \E task \in LockTasks, lock \in Locks, mode \in {"lock", "read", "write"} :
        Acquire(task, lock, mode)
    \/ \E task \in LockTasks, lock \in Locks, mode \in {"lock", "read", "write"} :
        Release(task, lock, mode)

SpecLocks == InitLocks /\ [][NextLocks]_vars

(***************************************************************************)
(* Properties of the subscription tracker.                                 *)
(***************************************************************************)
AtKey(seq, k) == {i \in 1..Len(seq) : Key(seq[i]) = k}

KeyLess(a, b) ==
    \/ a[1] < b[1]
    \/ a[1] = b[1] /\ a[2] < b[2]
    \/ a[1] = b[1] /\ a[2] = b[2] /\ a[3] < b[3]

\* The subscriptions the tracker retains, read off the nested map.
Retained ==
    {subscriptions[e][v][c] :
        <<e, v, c>> \in {t \in Epochs \X Validators \X Committees :
                            /\ t[1] \in DOMAIN subscriptions
                            /\ t[2] \in DOMAIN subscriptions[t[1]]
                            /\ t[3] \in DOMAIN subscriptions[t[1]][t[2]]}}

RetainedKeys ==
    {t \in Epochs \X Validators \X Committees :
        /\ t[1] \in DOMAIN subscriptions
        /\ t[2] \in DOMAIN subscriptions[t[1]]
        /\ t[3] \in DOMAIN subscriptions[t[1]][t[2]]}

\* C5 as stated: after any sequence of update and discard_old_subscriptions calls, for
\* every key submitted at least twice, all() contains exactly one subscription for the
\* key and it is the most recently submitted one.
OverwriteLaw_AsStated ==
    \A k \in DOMAIN prior :
        LET seq == all(subscriptions) IN
        /\ Cardinality(AtKey(seq, k)) = 1
        /\ \A i \in AtKey(seq, k) : seq[i] = submitted[k]

\* C5 amended: for every key submitted at least twice, all() contains exactly one
\* subscription for the key, the most recently submitted one, unless a
\* discard_old_subscriptions(E) with E greater than the key's epoch was called after
\* that submission; in that case all() contains no subscription for the key.
OverwriteLaw ==
    \A k \in DOMAIN prior :
        LET seq == all(subscriptions) IN
        IF k \in evicted
        THEN AtKey(seq, k) = {}
        ELSE /\ Cardinality(AtKey(seq, k)) = 1
             /\ \A i \in AtKey(seq, k) : seq[i] = submitted[k]

\* The scenario of the specification: (E,7,2,aggregator) superseded by
\* (E,7,2,not aggregator), and all() holds exactly the latter for the key.
OverwriteLaw_Witness ==
    \E k \in DOMAIN prior :
        /\ k \notin evicted
        /\ prior[k].is_aggregator /\ ~submitted[k].is_aggregator
        /\ all(subscriptions) = <<submitted[k]>>

\* C6: immediately after discard_old_subscriptions(E), all() contains no subscription
\* whose epoch is below E, and all() is empty when E is greater than every epoch that
\* was retained before the call.
EvictionLaw ==
    [][Len(ops') > Len(ops) /\ ops'[Len(ops')] = "discard" =>
        LET seq == all(subscriptions') IN
        /\ \A i \in 1..Len(seq) : compute_epoch_at_slot(seq[i].slot) >= arg'
        /\ (\A e \in DOMAIN subscriptions : e < arg') => seq = << >>]_vars

\* A discard that evicted one epoch and kept a later one.
EvictionLaw_Witness ==
    /\ LastOp = "discard"
    /\ arg = 1
    /\ evicted # {}
    /\ Len(all(subscriptions)) = 1

\* C7: all() returns every retained subscription exactly once, in ascending order of
\* epoch, then validator_index, then committee_index.
AllOrdered ==
    LET seq == all(subscriptions) IN
    /\ \A i, j \in 1..Len(seq) : i < j => KeyLess(Key(seq[i]), Key(seq[j]))
    /\ {seq[i] : i \in 1..Len(seq)} = Retained
    /\ Len(seq) = Cardinality(RetainedKeys)

\* A batch submitted in descending key order comes back in ascending order.
AllOrdered_Witness ==
    /\ LastOp = "update"
    /\ Len(batchArg) = 2
    /\ KeyLess(Key(batchArg[2]), Key(batchArg[1]))
    /\ all(subscriptions) = <<batchArg[2], batchArg[1]>>

\* C8: a call to all() that directly follows a call to all() yields the same sequence,
\* and an update or discard_old_subscriptions leaves the sequence already returned
\* as it was.
SnapshotIndependence ==
    [][Len(ops') > Len(ops) =>
        /\ (LastOp = "all" /\ ops'[Len(ops')] = "all") => returned' = returned
        /\ ops'[Len(ops')] \in {"update", "discard"} => returned' = returned]_vars

\* A non-empty snapshot that a later discard did not change although the tracker
\* itself did.
SnapshotIndependence_Witness ==
    /\ Len(ops) = 3
    /\ ops[2] = "all"
    /\ ops[3] = "discard"
    /\ returned # << >>
    /\ all(subscriptions) # returned

\* The keys of a nested map and the value it holds at a key.
KeysOf(m) ==
    {t \in (DOMAIN m) \X Validators \X Committees :
        t[2] \in DOMAIN m[t[1]] /\ t[3] \in DOMAIN m[t[1]][t[2]]}

ValueAt(m, k) == m[k[1]][k[2]][k[3]]

\* C16: in every reachable state every stored subscription is filed under the epoch
\* computed from its own slot, its validator_index and its committee_index, so that
\* all() holds at most one subscription per (epoch, validator_index, committee_index);
\* of two subscriptions with different slots of one epoch and the same validator_index
\* and committee_index only the later one, with its slot, is in all().
OnePerKey ==
    LET seq == all(subscriptions) IN
    /\ \A k \in KeysOf(subscriptions) : Key(ValueAt(subscriptions, k)) = k
    /\ \A k \in Epochs \X Validators \X Committees : Cardinality(AtKey(seq, k)) <= 1
    /\ \A k \in DOMAIN prior :
        (k \notin evicted /\ prior[k].slot # submitted[k].slot) =>
            /\ \E i \in 1..Len(seq) : seq[i] = submitted[k]
            /\ \A i \in 1..Len(seq) : seq[i] # prior[k]

\* Two slots of one epoch for the same validator and committee: one entry, the later.
OnePerKey_Witness ==
    \E k \in DOMAIN prior :
        /\ k \notin evicted
        /\ prior[k].slot = 0 /\ submitted[k].slot = 1
        /\ all(subscriptions) = <<submitted[k]>>

\* C17: update(batch) never removes an entry: every key retained before the call is
\* retained after it, with its value unchanged unless the batch holds a subscription
\* for the key; this includes the empty batch.
UpdateAdditive ==
    [][Len(ops') > Len(ops) /\ ops'[Len(ops')] = "update" =>
        \A k \in KeysOf(subscriptions) :
            /\ k \in KeysOf(subscriptions')
            /\ k \notin BatchKeys(batchArg') =>
                    ValueAt(subscriptions', k) = ValueAt(subscriptions, k)]_vars

\* An update for another key, and an empty update, on a tracker that held an entry.
UpdateAdditive_Witness ==
    /\ Len(ops) = 3
    /\ ops = <<"update", "update", "update">>
    /\ batchArg = << >>
    /\ Cardinality(KeysOf(subscriptions)) = 2

\* C18: discard_old_subscriptions(E) keeps, unchanged, every entry whose epoch is E or
\* later, and changes nothing when E is at or below the least retained epoch.
DiscardKeepsNewer ==
    [][Len(ops') > Len(ops) /\ ops'[Len(ops')] = "discard" =>
        /\ \A k \in KeysOf(subscriptions) :
            k[1] >= arg' =>
                /\ k \in KeysOf(subscriptions')
                /\ ValueAt(subscriptions', k) = ValueAt(subscriptions, k)
        /\ (\A e \in DOMAIN subscriptions : e >= arg') => subscriptions' = subscriptions]_vars

\* discard_old_subscriptions(1) on a tracker whose entries are all of epoch 1.
DiscardKeepsNewer_Witness ==
    /\ LastOp = "discard"
    /\ arg = 1
    /\ DOMAIN subscriptions = {1}
    /\ Cardinality(KeysOf(subscriptions)) = 2

(***************************************************************************)
(* Properties of the API error.                                            *)
(***************************************************************************)
\* C9 as stated: an InvalidBody error built from the two-level chain cause1 -> cause2
\* is rendered by format_sources as exactly "cause1: cause2".
FormatTwoLevel_AsStated ==
    (pcErr = "formatted" /\ Len(err.source) = 2) =>
        rendered = err.source[1] \o ": " \o err.source[2]

\* C9 amended: an InvalidBody error built from the two-level chain cause1 -> cause2 is
\* rendered by format_sources as its own message, "failed to read {direction} body for
\* {uri}", followed by ": cause1: cause2".
FormatTwoLevel ==
    (pcErr = "formatted" /\ Len(err.source) = 2) =>
        rendered = OwnMessage(err) \o ": " \o err.source[1] \o ": " \o err.source[2]

FormatTwoLevel_Witness ==
    /\ pcErr = "formatted"
    /\ err.source = <<"cause1", "cause2">>
    /\ err.direction = "response"
    /\ rendered = "failed to read response body for /b: cause1: cause2"

RECURSIVE JoinedBy(_, _)
JoinedBy(seq, separator) ==
    IF seq = << >> THEN ""
    ELSE IF Len(seq) = 1 THEN seq[1]
    ELSE seq[1] \o separator \o JoinedBy(Tail(seq), separator)

\* C24: for every cause chain, format_sources terminates; what it has rendered then
\* starts with the error's own message, "failed to read {direction} body for {uri}",
\* followed by each error of the chain once, outermost to innermost, joined by ": ":
\* chain length plus one elements.
SourcesComplete ==
    /\ [](pcErr = "formatted" =>
            /\ yielded = <<"failed to read " \o err.direction \o " body for " \o err.uri>>
                            \o err.source
            /\ Len(yielded) = Len(err.source) + 1
            /\ rendered = JoinedBy(yielded, ": "))
    /\ (pcErr = "formatting" ~> pcErr = "formatted")

\* A chain of two causes with the same message: three elements, each cause once.
SourcesComplete_Witness ==
    /\ pcErr = "formatted"
    /\ err.source = <<"cause2", "cause2">>
    /\ Len(yielded) = 3
    /\ rendered = "failed to read request body for /a: cause2: cause2"

\* C10: every InvalidBody error, whatever its direction, uri and cause, has the status
\* code 400 Bad Request, and the response made by into_response carries it.
StatusIsBadRequest ==
    /\ status_code(err) = 400
    /\ pcErr = "responded" => response # None /\ Unwrap(response).status = 400

StatusIsBadRequest_Witness ==
    /\ pcErr = "responded"
    /\ err.direction = "response"
    /\ Unwrap(response).status = 400

(***************************************************************************)
(* Properties of try_run_case.                                             *)
(***************************************************************************)
\* C1: the race returns exactly the outcome of the first racer to resolve, and no
\* other racer resolves: when try_run_case has returned from the race, one racer's poll
\* has returned Ready and the result is that racer's outcome.
FirstResolvedWins ==
    (pc = Done /\ result # None) =>
        /\ Len(resolved) = 1
        /\ result = Some(OutcomeOf(resolved[1]))

\* A race that a racer won with a failure while a second racer was about to succeed.
FirstResolvedWins_Witness ==
    /\ pc = Done
    /\ result = Some(Err("validator"))
    /\ \E r \in Racers : status[r] = "ready" /\ fate[r] = "ok"

\* C2: when one racer fails at once and no other racer ever resolves, the race
\* terminates with that failure, every other racer still pending.
RaceTerminates ==
    \A r \in Racers :
        (/\ At("race")
         /\ status[r] = "ready" /\ fate[r] = "err"
         /\ \A o \in Racers \ {r} : fate[o] = "never")
        ~> (/\ pc = Done
            /\ result = Some(Err(RacerNames[r]))
            /\ \A o \in Racers \ {r} : status[o] = "pending")

RaceTerminates_Witness ==
    /\ pc = Done
    /\ result = Some(Err("submit_requests"))
    /\ \A o \in Racers : o # Len(RacerNames) => fate[o] = "never" /\ status[o] = "pending"

\* The order of the racers: HTTP API, mutator join, execution service,
\* BLS-to-execution-change pool service, liveness tracker, validator, subnet service,
\* scripted request sequence.
ListedOrder ==
    <<"run_http_api", "join_mutator", "execution_service",
      "bls_to_execution_change_pool_service", "liveness_tracker", "validator",
      "subnet_service", "submit_requests">>

ListedBefore(name) ==
    {ListedOrder[i] : i \in {j \in 1..Len(ListedOrder) :
                                \A k \in 1..j : ListedOrder[k] # name}}

\* C22: the result the race returns is that of the earliest listed racer that was ready
\* when the returning poll of the select reached it: every racer listed before the
\* winner was polled in that pass and found pending, and no racer found ready was
\* passed over; the scripted request sequence wins only when all seven others were
\* found pending in that pass.
EarliestReadyWins ==
    (pc = Done /\ resolved # << >>) =>
        LET winner == resolved[1] IN
        /\ result = Some(OutcomeOf(winner))
        /\ <<winner, "ready">> \in observed
        /\ \A name \in ListedBefore(RacerNames[winner]) :
                <<RacerOf(name), "pending">> \in observed
        /\ \A o \in observed : o[2] = "ready" => o[1] = winner
        /\ RacerNames[winner] = "submit_requests" =>
                observed = {<<r, "pending">> : r \in Racers \ {winner}}
                            \cup {<<winner, "ready">>}

\* The execution service and the scripted requests were both ready; the race returned
\* the result of the execution service, the two racers before it being pending.
EarliestReadyWins_Witness ==
    /\ pc = Done
    /\ result = Some(Ok)
    /\ resolved = <<RacerOf("execution_service")>>
    /\ status[RacerOf("submit_requests")] = "ready"
    /\ fate[RacerOf("submit_requests")] = "err"
    /\ observed = {<<1, "pending">>, <<2, "pending">>, <<3, "ready">>}

\* The notification a supplied payload status stands for.
NotificationOp(payload_status) ==
    IF payload_status = "Valid" THEN "on_notified_valid_payload"
                                ELSE "on_notified_invalid_payload"

IsNotification(call) ==
    call.op \in {"on_notified_valid_payload", "on_notified_invalid_payload"}

\* C3: every payload-status notification is submitted before the first
\* on_requested_block call; and when a block with execution payload X is submitted, the
\* notification for every Valid or Invalid status supplied for X has been submitted.
PayloadStatusBeforeBlock ==
    /\ \A i, j \in 1..Len(calls) :
        (calls[i].op = "on_requested_block" /\ IsNotification(calls[j])) => j < i
    /\ \A i \in 1..Len(calls) : \A k \in 1..Len(payload_statuses) :
        (/\ calls[i].op = "on_requested_block"
         /\ payload_statuses[k][2] # "Optimistic"
         /\ extra_blocks[calls[i].block] = Some(payload_statuses[k][1]))
        => \E j \in 1..(i - 1) :
              /\ calls[j].op = NotificationOp(payload_statuses[k][2])
              /\ calls[j].hash = payload_statuses[k][1]

PayloadStatusBeforeBlock_Witness ==
    /\ payload_statuses = <<<<2, "Invalid">>, <<1, "Valid">>>>
    /\ Len(calls) = 3
    /\ calls[2] = [op |-> "on_notified_valid_payload", hash |-> 1]
    /\ calls[3].op = "on_requested_block"
    /\ extra_blocks[calls[3].block] = Some(1)

\* The notifications the supplied statuses stand for, in the order supplied.
RECURSIVE ExpectedNotifications(_)
ExpectedNotifications(statuses) ==
    IF statuses = << >> THEN << >>
    ELSE LET hash == Head(statuses)[1]
             payload_status == Head(statuses)[2]
         IN  (CASE payload_status = "Valid" ->
                    <<[op |-> "on_notified_valid_payload", hash |-> hash]>>
                [] payload_status = "Invalid" ->
                    <<[op |-> "on_notified_invalid_payload", hash |-> hash,
                       reason |-> << >>]>>
                [] payload_status = "Optimistic" -> << >>)
             \o ExpectedNotifications(Tail(statuses))

\* C23: the notifications made on the controller are those of the payload statuses
\* consumed so far, one for each Valid (on_notified_valid_payload(hash)) and each Invalid
\* (on_notified_invalid_payload(hash, no reason)) and none for an Optimistic one, in
\* the order supplied; the loop never fails and never returns an error: it consumes
\* every status, and try_run_case goes on after it.
PayloadNotifications ==
    /\ SelectSeq(calls, IsNotification)
            = ExpectedNotifications(SubSeq(payload_statuses, 1, next_status))
    /\ "payload_statuses" \notin failures
    /\ At("payload_statuses") => result = None
    /\ (pc > PcOf("payload_statuses") /\ pc <= Len(Program)) =>
            next_status = Len(payload_statuses)
    /\ \A step \in failures :
            PcOf(step) > PcOf("payload_statuses") => next_status = Len(payload_statuses)

\* An Optimistic status and then an Invalid one were consumed: one notification, and
\* try_run_case went on to the extra blocks.
PayloadNotifications_Witness ==
    /\ payload_statuses = <<<<2, "Optimistic">>, <<1, "Invalid">>>>
    /\ next_status = 2
    /\ calls = <<[op |-> "on_notified_invalid_payload", hash |-> 1, reason |-> None]>>
    /\ At("extra_blocks")
    /\ result = None

\* The verdict of the last notification for a hash among the first n calls, if any.
LatestNotified(n, hash) ==
    LET js == {j \in 1..n : IsNotification(calls[j]) /\ calls[j].hash = hash}
    IN  IF js = {} THEN None ELSE Some(calls[MaxOf(js)].op)

\* The last Valid or Invalid status supplied for a hash, if any.
LatestSupplied(hash) ==
    LET ks == {k \in 1..Len(payload_statuses) :
                /\ payload_statuses[k][1] = hash
                /\ payload_statuses[k][2] # "Optimistic"}
    IN  IF ks = {} THEN None ELSE Some(payload_statuses[MaxOf(ks)][2])

CallOf(block) ==
    CHOOSE i \in 1..Len(calls) :
        calls[i].op = "on_requested_block" /\ calls[i].block = block

Components ==
    {"execution_engine", "controller", "execution_service", "sync_committee_agg_pool",
     "bls_to_execution_change_pool", "liveness_tracker", "validator", "subnet_service",
     "http_api", "test_state"}

\* Who may hold a sender of a channel as one that sends on it: a component, or
\* try_run_case itself for sync_to_api, on which it sends before the race.
SendersOf(channel) ==
    IF channel = "sync_to_api" THEN Components \cup {"try_run_case"} ELSE Components

\* A channel is allocated, each of its senders is held by one that sends on it and its
\* receiver is held by one component.
Wired(channel) ==
    /\ <<channel, "tx">> \in DOMAIN endpoints
    /\ <<channel, "rx">> \in DOMAIN endpoints
    /\ endpoints[<<channel, "tx">>] # {}
    /\ endpoints[<<channel, "tx">>] \subseteq SendersOf(channel)
    /\ Cardinality(endpoints[<<channel, "rx">>]) = 1
    /\ endpoints[<<channel, "rx">>] \subseteq Components

NoErrorDropped ==
    \A f \in failures : result = Some(Err(f))

NoErrorDropped_Witness ==
    /\ failures = {"register_validators"}
    /\ result = Some(Err("register_validators"))
    /\ pc = Done

\* The text of the messages of a sequence.
Bodies(messages) == [i \in 1..Len(messages) |-> messages[i].body]

\* C13: on every channel the messages taken by its one consumer, followed by those
\* still queued, are the messages sent, in the order sent, whoever of the holders of
\* its sender sent them. (That no order holds across channels shows in the witness.)
ChannelFifo ==
    \A channel \in Channels :
        /\ OnChannel(received, channel) \o OnChannel(queue, channel)
                = OnChannel(sent, channel)
        /\ \A i, j \in 1..Len(OnChannel(sent, channel)) :
                i < j => sent[channel][i].at < sent[channel][j].at
        /\ Cardinality(endpoints[<<channel, "rx">>]) = 1

\* Both pools sent on pool_to_p2p and the messages arrived in the order sent, while
\* the two messages sent before them on sync_to_api have not been taken yet.
ChannelFifo_Witness ==
    /\ Len(OnChannel(received, "pool_to_p2p")) = 2
    /\ received["pool_to_p2p"][1].from = "bls_to_execution_change_pool"
    /\ received["pool_to_p2p"][2].from = "sync_committee_agg_pool"
    /\ Len(queue["sync_to_api"]) = 2
    /\ queue["sync_to_api"][1].at < received["pool_to_p2p"][1].at

\* The senders: try_run_case before the race, and then the components that hold a
\* sender of a channel.
SendEnabled ==
    /\ At("sends") => ENABLED Construct
    /\ At("race") =>
        \A channel \in Channels :
            \A producer \in endpoints[<<channel, "tx">>] \ {"try_run_case"} :
                ENABLED Send(channel, producer)

\* C21: a send on any channel is enabled and completes in one step, whatever the queue
\* holds and whether or not the consumer has taken anything: the two sends of
\* try_run_case before any consumer runs, and every send of a component that holds a
\* sender (up to the number of sends explored).
SendsNeverBlock ==
    SentSoFar < Len(SyncSends) + MaxSent => SendEnabled

\* A channel holds two messages nobody took, another one a message, nothing was
\* received anywhere, and every sender can still send.
SendsNeverBlock_Witness ==
    /\ At("race")
    /\ received = EmptyMap
    /\ Len(OnChannel(queue, "sync_to_api")) = 2
    /\ Len(OnChannel(queue, "validator_to_p2p")) = 1
    /\ SentSoFar < Len(SyncSends) + MaxSent
    /\ SendEnabled

\* C14: Controller::new is given the block-proposal tick of the last extra block, or of
\* the anchor block when there is none, and the only calls made on the controller are
\* the payload notifications and on_requested_block: never on_slot.
TickFromLastBlock ==
    /\ tick # None =>
        Unwrap(tick) = [block |-> IF extra_blocks = << >> THEN 0 ELSE Len(extra_blocks),
                        kind |-> "Propose"]
    /\ (pc <= Len(Program) /\ pc > PcOf("controller")) => tick # None
    /\ \A i \in 1..Len(calls) :
        calls[i].op \in {"on_notified_valid_payload", "on_notified_invalid_payload",
                         "on_requested_block"}

\* Two different extra blocks: the tick is the second one's, and both were ingested.
TickFromLastBlock_Witness ==
    /\ Len(extra_blocks) = 2
    /\ extra_blocks[1] # extra_blocks[2]
    /\ tick = Some([block |-> 2, kind |-> "Propose"])
    /\ ingested = {1, 2}

\* C15: at most one task holds the lock of the slashing protector; the signer is held
\* by one writer and no reader, or by readers only.
MutualExclusion ==
    LET writers == {h \in holders["signer"] : h[2] = "write"}
        readers == {h \in holders["signer"] : h[2] = "read"}
    IN  /\ Cardinality(holders["slashing_protector"]) <= 1
        /\ Cardinality(writers) <= 1
        /\ writers # {} => readers = {}
        /\ holders["signer"] = writers \cup readers

\* Two readers of the signer at once, a writer waiting for them, and a task waiting
\* for the slashing protector that another one holds.
MutualExclusion_Witness ==
    /\ Cardinality(holders["signer"]) = 2
    /\ \E h \in waiting["signer"] : h[2] = "write"
    /\ Cardinality(holders["slashing_protector"]) = 1
    /\ waiting["slashing_protector"] # {}

\* C19: SyncStatus(true) and then BackSyncStatus(true) have been sent on sync_to_api
\* when the first run loop is polled, and the HTTP API has handled both, in that
\* order, when it serves the first scripted request.
StatusBeforeRequests ==
    /\ polled # {} =>
        Bodies(OnChannel(sent, "sync_to_api"))
            = <<"SyncStatus(true)", "BackSyncStatus(true)">>
    /\ request = "served" =>
        Bodies(Unwrap(servedAfter)) = <<"SyncStatus(true)", "BackSyncStatus(true)">>

StatusBeforeRequests_Witness ==
    /\ request = "served"
    /\ Bodies(OnChannel(received, "sync_to_api"))
        = <<"SyncStatus(true)", "BackSyncStatus(true)">>
    /\ queue["sync_to_api"] = << >>

====
